---- MODULE Spec2Model ----
(***************************************************************************)
(* State-machine model of the two command line programs of the repository: *)
(*   flights_one_sat_filter.py     (prog = "filter"): counts the flights   *)
(*                                  inside a satellite footprint;          *)
(*   flights_within_satcov_kml.py  (prog = "kml"): writes the FIR borders  *)
(*                                  and the covered flights to a KML file. *)
(* Both are straight-line scripts; pc is the position of the interpreter   *)
(* in the script and there is one action per numbered section of the code. *)
(*                                                                         *)
(* Coordinates are expressed in multiples of one arc step of 463000 metres *)
(* (4.163853 degrees) on the sphere used by geopy (radius 6371.009 km), so *)
(* that distances on a meridian or on the equator are exact integers of    *)
(* metres: one step is 463 km = 250 nautical miles.                        *)
(***************************************************************************)
EXTENDS Integers, Sequences, FiniteSets, TLC

\* ------------------------------------------------------------------ bounds
MaxRows == 2
MaxFIRs == 2

\* -------------------------------------------------------------- the inputs
Programs == {"filter", "kml"}
ArgvShapes == {"help", "short", "nolat", "nolon", "notime", "norad", "full"}
LatTokens == {"x", "0.0", "4.163853"}
LonTokens == {"x", "0.0"}
RadTokens == {"1e3", "-250", "0", "250", "463"}
TimeTokens == {"12:00:00", "12:00:75", "12:61:00", "25:61:00", "12:00", "ab:00:00"}
FileStatus == {"missing", "wrongext", "ok"}
OutNames == {"out.kml", "-out"}

RowTimes == {"12:00:00", "23:25:00"}
RowPoints == {<<0, 0>>, <<1, 0>>, <<0, 1>>}
Rows == [time : RowTimes, lat : {0, 1}, lon : {0, 1}]

ClosedRing == << <<0, 0>>, <<2, 0>>, <<2, 1>>, <<0, 0>> >>
OpenRing == << <<0, 0>>, <<2, 0>>, <<2, 1>> >>
Features ==
  { [coordinates |-> <<ClosedRing>>,
     properties |-> << <<"FIRname", "A">>, <<"area", "10">> >>],
    [coordinates |-> <<OpenRing, ClosedRing>>,
     properties |-> << <<"FIRname", "B">> >>],
    [coordinates |-> <<ClosedRing>>,
     properties |-> << <<"area", "10">> >>] }

SeqsUpTo(S, n) == UNION { [1..k -> S] : k \in 0..n }

CsvFiles == { f \in SeqsUpTo(Rows, MaxRows) :
                \A i \in 1..Len(f) : <<f[i].lat, f[i].lon>> \in RowPoints }
GeojsonFiles == SeqsUpTo(Features, MaxFIRs)

\* ------------------------------------------------- builtin conversions used
\* float(): ValueError on a non-numeric token
IsFloat(tok) == tok \in {"0.0", "4.163853"}
float(tok) == CASE tok = "0.0" -> 0
                [] tok = "4.163853" -> 1
                [] OTHER -> 0

\* int(): ValueError on a token that is not an integer literal
IsInt(tok) == tok \in {"-250", "0", "250", "463", "00", "12", "25", "61", "75"}
int(tok) == CASE tok = "-250" -> 0 - 250
              [] tok = "0" -> 0
              [] tok = "00" -> 0
              [] tok = "12" -> 12
              [] tok = "25" -> 25
              [] tok = "61" -> 61
              [] tok = "75" -> 75
              [] tok = "250" -> 250
              [] tok = "463" -> 463
              [] OTHER -> 0

\* str.split(":")
split(t) == CASE t = "12:00:00" -> <<"12", "00", "00">>
              [] t = "12:00:75" -> <<"12", "00", "75">>
              [] t = "12:61:00" -> <<"12", "61", "00">>
              [] t = "25:61:00" -> <<"25", "61", "00">>
              [] t = "12:00" -> <<"12", "00">>
              [] t = "ab:00:00" -> <<"ab", "00", "00">>
              [] OTHER -> <<t>>

startswithDash(s) == s = "-out"

Abs(x) == IF x < 0 THEN 0 - x ELSE x

\* geopy.distance.great_circle(a, b), in metres rounded down; a and b are
\* <<lat, lon>> pairs on the arc-step grid with lat, lon in {0, 1}.
great_circle(a, b) ==
  IF a[2] = b[2] THEN Abs(a[1] - b[1]) * 463000
  ELSE IF a[1] = 0 /\ b[1] = 0 THEN Abs(a[2] - b[2]) * 463000
  ELSE IF a[1] = b[1] THEN 461777
  ELSE 654492

\* great_circle(...).nm < r  and  great_circle(...).km < r, for an integer r:
\* geopy divides the kilometres by 1.852 to give nautical miles
nmLess(m, r) == m < 1852 * r
kmLess(m, r) == m < 1000 * r

help_manual == "help_manual"

\* ---------------------------------------------------------------- the state
VARIABLES prog, argv, pc, stdout, exit_status,
          sat_lat, sat_lon, sat_radius, sat_time, radius_in_mn,
          polygons, names, geojson_loaded, flights_df, csv_loaded,
          kml_file, kml_text, n_fir,
          flights_lat, flights_lon, index, flight_accepted, count

vars == <<prog, argv, pc, stdout, exit_status,
          sat_lat, sat_lon, sat_radius, sat_time, radius_in_mn,
          polygons, names, geojson_loaded, flights_df, csv_loaded,
          kml_file, kml_text, n_fir,
          flights_lat, flights_lon, index, flight_accepted, count>>

argVars == <<prog, argv>>
satVars == <<sat_lat, sat_lon, sat_radius, sat_time, radius_in_mn>>
dataVars == <<polygons, names, geojson_loaded, flights_df, csv_loaded>>
kmlVars == <<kml_file, kml_text, n_fir>>
loopVars == <<flights_lat, flights_lon, index, flight_accepted, count>>

DefaultArgv == [shape |-> "full", lat |-> "0.0", lon |-> "0.0", rad |-> "250",
                time |-> "12:00:00", geojson |-> "ok", csv |-> "ok",
                out |-> "out.kml", km |-> FALSE]

\* The command lines: a short one (help or too few arguments), one without
\* one of the mandatory flags, or a full one with every combination of values.
Argvs(p) ==
  { [DefaultArgv EXCEPT !.shape = s] : s \in ArgvShapes \ {"full"} }
  \cup
  { a \in [shape : {"full"}, lat : LatTokens, lon : LonTokens, rad : RadTokens,
           time : TimeTokens, geojson : FileStatus, csv : FileStatus,
           out : OutNames, km : BOOLEAN] :
      p = "filter" => (a.geojson = "ok" /\ a.out = "out.kml") }

Init ==
  /\ prog \in Programs
  /\ argv \in Argvs(prog)
  /\ pc = "args"
  /\ stdout = <<>>
  /\ exit_status = -1
  /\ sat_lat = 0 /\ sat_lon = 0 /\ sat_radius = 0 /\ sat_time = ""
  /\ radius_in_mn = TRUE
  /\ polygons = <<>> /\ names = <<>> /\ geojson_loaded = FALSE
  /\ flights_df = <<>> /\ csv_loaded = FALSE
  /\ kml_file = [state |-> "unopened", data |-> <<>>]
  /\ kml_text = <<>>
  /\ n_fir = 0
  /\ flights_lat = <<>> /\ flights_lon = <<>>
  /\ index = 0 /\ flight_accepted = FALSE /\ count = 0

\* sys.exit() with no argument: the process ends with exit status 0
sysExit(msgs) ==
  /\ stdout' = stdout \o msgs
  /\ pc' = "exited"
  /\ exit_status' = 0

\* an exception nobody catches: traceback, exit status 1
uncaught(exc) ==
  /\ stdout' = stdout
  /\ pc' = "crashed"
  /\ exit_status' = 1

goto(label, msgs) ==
  /\ stdout' = stdout \o msgs
  /\ pc' = label
  /\ exit_status' = exit_status

\* 0.1. Command line arguments filtering
CommandLineArgumentsFiltering ==
  /\ pc = "args"
  /\ IF argv.shape = "help"
       THEN sysExit(<<"HELP MANUAL", help_manual>>)
     ELSE IF argv.shape = "short"
       THEN sysExit(<<"ERROR: Incorrect arguments", help_manual>>)
     ELSE IF argv.shape = "nolat"
       THEN sysExit(<<"ERROR: -lat argument not found", help_manual>>)
     ELSE IF argv.shape = "nolon"
       THEN sysExit(<<"ERROR: -lon argument not found", help_manual>>)
     ELSE IF argv.shape = "notime"
       THEN sysExit(<<"ERROR: -time argument not found", help_manual>>)
     ELSE IF argv.shape = "norad"
       THEN sysExit(<<"ERROR: -rad argument not found", help_manual>>)
     ELSE goto("numerical", <<>>)
  /\ UNCHANGED <<argVars, satVars, dataVars, kmlVars, loopVars>>

\* 0.2.1. Numerical values
NumericalValues ==
  /\ pc = "numerical"
  /\ IF IsFloat(argv.lat) /\ IsFloat(argv.lon) /\ IsInt(argv.rad)
       THEN /\ sat_lat' = float(argv.lat)
            /\ sat_lon' = float(argv.lon)
            /\ sat_radius' = int(argv.rad)
            /\ goto("time", <<>>)
       ELSE /\ sat_lat' = IF IsFloat(argv.lat) THEN float(argv.lat) ELSE sat_lat
            /\ sat_lon' = IF IsFloat(argv.lat) /\ IsFloat(argv.lon)
                            THEN float(argv.lon) ELSE sat_lon
            /\ sat_radius' = sat_radius
            /\ sysExit(<<"ERROR: Incorrect argument values", help_manual>>)
  /\ UNCHANGED <<argVars, sat_time, radius_in_mn, dataVars, kmlVars, loopVars>>

\* The condition of 0.2.2 as Python evaluates it (left to right, with the
\* short circuits of or / and): "ok", "error", or "ValueError" when int()
\* is applied to a field that is not a number.
inRange(lo, tok, hi) == lo <= int(tok) /\ int(tok) < hi
timeCheck(t) ==
  LET sat_time_split == split(t) IN
  IF Len(sat_time_split) # 3 THEN "error"
  ELSE IF ~IsInt(sat_time_split[1]) THEN "ValueError"
  ELSE IF ~inRange(0, sat_time_split[1], 24) THEN "error"
  ELSE IF ~IsInt(sat_time_split[2]) THEN "ValueError"
  ELSE IF ~inRange(0, sat_time_split[2], 60) THEN "error"
  ELSE IF ~inRange(0, sat_time_split[2], 60) THEN "error"
  ELSE "ok"

\* 0.2.2. Time values
TimeValues ==
  /\ pc = "time"
  /\ sat_time' = argv.time
  /\ LET r == timeCheck(argv.time) IN
       IF r = "ValueError" THEN uncaught("ValueError")
       ELSE IF r = "error"
         THEN sysExit(<<"ERROR: Incorrect time format", help_manual>>)
       ELSE goto(IF prog = "kml" THEN "geojson" ELSE "csv", <<>>)
  /\ UNCHANGED <<argVars, sat_lat, sat_lon, sat_radius, radius_in_mn,
                 dataVars, kmlVars, loopVars>>

\* 0.2.3 (kml). GeoJSON file check
GeoJSONFileCheck ==
  /\ pc = "geojson"
  /\ prog = "kml"
  /\ IF argv.geojson = "missing"
       THEN sysExit(<<"ERROR: argument is not a file",
                      "Please, introduce a .geojson valid file">>)
     ELSE IF argv.geojson = "wrongext"
       THEN sysExit(<<"ERROR: Incorrect file extension",
                      "FIR information file must be in geojson format">>)
     ELSE goto("csv", <<>>)
  /\ UNCHANGED <<argVars, satVars, dataVars, kmlVars, loopVars>>

\* 0.2.3 (filter), 0.2.4 (kml). Flights file check
FlightsFileCheck ==
  /\ pc = "csv"
  /\ IF argv.csv = "missing"
       THEN sysExit(<<"ERROR: argument is not a file",
                      "Please, introduce a .csv valid file">>)
     ELSE IF argv.csv = "wrongext"
       THEN sysExit(<<"ERROR: Incorrect file extension",
                      "File with flights information must be in csv format">>)
     ELSE goto(IF prog = "kml" THEN "outname" ELSE "unit", <<>>)
  /\ UNCHANGED <<argVars, satVars, dataVars, kmlVars, loopVars>>

\* 0.2.5 (kml). Output name check: the messages are printed and the script
\* goes on, there is no sys.exit() in this branch.
OutputNameCheck ==
  /\ pc = "outname"
  /\ prog = "kml"
  /\ IF startswithDash(argv.out)
       THEN goto("unit", <<"ERROR: output name is not valid",
                           "Please, introduce a valid name">>)
       ELSE goto("unit", <<>>)
  /\ UNCHANGED <<argVars, satVars, dataVars, kmlVars, loopVars>>

\* 0.2.4 (filter), 0.2.6 (kml). Metric unit, and 1.1 user information
MetricUnit ==
  /\ pc = "unit"
  /\ radius_in_mn' = ~argv.km
  /\ goto(IF prog = "kml" THEN "load_geojson" ELSE "load_csv",
          <<"User input values:">>)
  /\ UNCHANGED <<argVars, sat_lat, sat_lon, sat_radius, sat_time,
                 dataVars, kmlVars, loopVars>>

\* getFIRs(geojson): the first ring and the property map of every feature
getFIRs(geojson) ==
  [polygons |-> [i \in 1..Len(geojson) |-> geojson[i].coordinates[1]],
   names |-> [i \in 1..Len(geojson) |-> geojson[i].properties]]

\* 1.2 (kml). GeoJSON file reading; the file holds any sequence of features
GeoJSONFileReading ==
  /\ pc = "load_geojson"
  /\ prog = "kml"
  /\ \E geojson \in GeojsonFiles :
       /\ polygons' = getFIRs(geojson).polygons
       /\ names' = getFIRs(geojson).names
  /\ geojson_loaded' = TRUE
  /\ goto("load_csv", <<"Loading geojson file...">>)
  /\ UNCHANGED <<argVars, satVars, flights_df, csv_loaded, kmlVars, loopVars>>

\* 1.2 (filter), 1.3 (kml). Flights file reading; the file holds any rows
FlightsFileReading ==
  /\ pc = "load_csv"
  /\ flights_df' \in CsvFiles
  /\ csv_loaded' = TRUE
  /\ goto(IF prog = "kml" THEN "open" ELSE "slice", <<"Loading csv file...">>)
  /\ UNCHANGED <<argVars, satVars, polygons, names, geojson_loaded,
                 kmlVars, loopVars>>

\* writeKML(kml_file, kml_text): append the buffer to the file
writeKML(file, text) == [file EXCEPT !.data = file.data \o text]

\* 2.1. KML file opening; open() raises when the destination is not writable
KMLFileOpening ==
  /\ pc = "open"
  /\ prog = "kml"
  /\ \E writable \in BOOLEAN :
       IF writable
         THEN /\ kml_file' = [state |-> "open", data |-> <<>>]
              /\ goto("header", <<"Starting KML file creation...">>)
         ELSE /\ kml_file' = kml_file
              /\ uncaught("OSError")
  /\ UNCHANGED <<argVars, satVars, dataVars, kml_text, n_fir, loopVars>>

\* the three buffers of 2.2, 2.3.1 and 2.3.2
kmlInitialValues(name) == [kind |-> "header", name |-> name]
styleFIR == [kind |-> "style", id |-> "FIR"]
styleFlight == [kind |-> "style", id |-> "Flight"]

\* 2.2. KML initial values introduction, 2.3. Styles: three writeKML calls
KMLInitialValuesAndStyles ==
  /\ pc = "header"
  /\ kml_file' = writeKML(writeKML(writeKML(kml_file,
                     <<kmlInitialValues(argv.out)>>), <<styleFIR>>), <<styleFlight>>)
  /\ kml_text' = <<>>
  /\ goto("fir", <<>>)
  /\ UNCHANGED <<argVars, satVars, dataVars, n_fir, loopVars>>

\* names[n_fir]["FIRname"]: dictionary lookup, KeyError when the key is absent
hasKey(props, key) == \E i \in 1..Len(props) : props[i][1] = key
getItem(props, key) ==
  props[CHOOSE i \in 1..Len(props) : props[i][1] = key][2]

\* 2.4.4. Border points coordinates: "lon,lat,0 " for every vertex of the ring
borderPoints(ring) ==
  [i \in 1..Len(ring) |-> <<ring[i][1], ring[i][2], 0>>]

\* 2.4.1 - 2.4.5: the Placemark of one FIR
firPlacemark(ring, props) ==
  [kind |-> "region", name |-> getItem(props, "FIRname"), styleUrl |-> "#FIR",
   data |-> props, coordinates |-> borderPoints(ring)]

\* 2.4. FIR data: one iteration of the loop, or its exit
FIRData ==
  /\ pc = "fir"
  /\ IF n_fir < Len(polygons)
       THEN IF hasKey(names[n_fir + 1], "FIRname")
              THEN /\ kml_file' = writeKML(kml_file,
                          <<firPlacemark(polygons[n_fir + 1], names[n_fir + 1])>>)
                   /\ kml_text' = <<>>
                   /\ n_fir' = n_fir + 1
                   /\ goto("fir", <<>>)
              ELSE /\ kml_text' = <<[kind |-> "unfinished"]>>
                   /\ kml_file' = kml_file
                   /\ n_fir' = n_fir
                   /\ uncaught("KeyError")
       ELSE /\ goto("slice", <<>>)
            /\ UNCHANGED <<kml_file, kml_text, n_fir>>
  /\ UNCHANGED <<argVars, satVars, dataVars, loopVars>>

\* a filter that keeps the rows of every time instant
filterByTimeKeepsAll(df, t) == df

\* flights_df[flights_df.iloc[:,0] == sat_time]
filterByTime(df, t) == SelectSeq(df, LAMBDA row : row.time = t)

\* 1.3 (filter), 2.5.1 (kml). Latitude & longitude of flights per time instant
LatLonObtention ==
  /\ pc = "slice"
  /\ LET filtered_df == filterByTime(flights_df, sat_time) IN
       /\ flights_lat' = [i \in 1..Len(filtered_df) |-> filtered_df[i].lat]
       /\ flights_lon' = [i \in 1..Len(filtered_df) |-> filtered_df[i].lon]
  /\ index' = 0 /\ count' = 0
  /\ flight_accepted' = flight_accepted
  /\ goto("flights", <<>>)
  /\ UNCHANGED <<argVars, satVars, dataVars, kmlVars>>

\* the if / elif with an inclusive comparison
flightAcceptedInclusive(sat_pos, flight_pos, in_mn, radius) ==
  IF in_mn /\ great_circle(sat_pos, flight_pos) <= 1852 * radius THEN TRUE
  ELSE IF great_circle(sat_pos, flight_pos) <= 1000 * radius THEN TRUE
  ELSE FALSE

\* the if / elif of 1.4 (filter) and 2.5.2 (kml)
flightAccepted(sat_pos, flight_pos, in_mn, radius) ==
  IF in_mn /\ nmLess(great_circle(sat_pos, flight_pos), radius) THEN TRUE
  ELSE IF kmLess(great_circle(sat_pos, flight_pos), radius) THEN TRUE
  ELSE FALSE

\* a Placemark that writes the latitude before the longitude
flightPlacemarkLatFirst(flight_pos) ==
  [kind |-> "marker", styleUrl |-> "#Flight",
   coordinates |-> <<flight_pos[1], flight_pos[2], 0>>,
   afterCoordinates |-> "s"]

\* the Placemark of one flight (2.5.2): the coordinates are flight_pos[1],
\* flight_pos[0], 0 and the literal that follows </coordinates> is "s"
flightPlacemark(flight_pos) ==
  [kind |-> "marker", styleUrl |-> "#Flight",
   coordinates |-> <<flight_pos[2], flight_pos[1], 0>>,
   afterCoordinates |-> "s"]

\* 1.4 (filter), 2.5.2 (kml): one iteration of the loop over the time slice,
\* or its exit
FlightCheck ==
  /\ pc = "flights"
  /\ IF index < Len(flights_lat)
       THEN LET sat_pos == <<sat_lat, sat_lon>>
                flight_pos == <<flights_lat[index + 1], flights_lon[index + 1]>>
                acc == flightAccepted(sat_pos, flight_pos, radius_in_mn, sat_radius)
            IN /\ flight_accepted' = acc
               /\ index' = index + 1
               /\ IF prog = "kml"
                    THEN /\ kml_file' = IF acc
                               THEN writeKML(kml_file, <<flightPlacemark(flight_pos)>>)
                               ELSE kml_file
                         /\ count' = count
                    ELSE /\ kml_file' = kml_file
                         /\ count' = IF acc THEN count + 1 ELSE count
               /\ goto("flights", <<>>)
       ELSE /\ goto(IF prog = "kml" THEN "close" ELSE "outcome", <<>>)
            /\ UNCHANGED <<kml_file, index, flight_accepted, count>>
  /\ UNCHANGED <<argVars, satVars, dataVars, kml_text, n_fir,
                 flights_lat, flights_lon>>

kmlFooter == [kind |-> "footer"]

\* 2.6. KML file closing
KMLFileClosing ==
  /\ pc = "close"
  /\ prog = "kml"
  /\ kml_file' = [writeKML(kml_file, <<kmlFooter>>) EXCEPT !.state = "closed"]
  /\ kml_text' = <<>>
  /\ stdout' = stdout
  /\ pc' = "done"
  /\ exit_status' = 0
  /\ UNCHANGED <<argVars, satVars, dataVars, n_fir, loopVars>>

\* 2 (filter). Outcome printing
OutcomePrinting ==
  /\ pc = "outcome"
  /\ prog = "filter"
  /\ stdout' = stdout \o <<"Flights within satellite coverage: ", ToString(count)>>
  /\ pc' = "done"
  /\ exit_status' = 0
  /\ UNCHANGED <<argVars, satVars, dataVars, kmlVars, loopVars>>

Next ==
  \/ CommandLineArgumentsFiltering
  \/ NumericalValues
  \/ TimeValues
  \/ GeoJSONFileCheck
  \/ FlightsFileCheck
  \/ OutputNameCheck
  \/ MetricUnit
  \/ GeoJSONFileReading
  \/ FlightsFileReading
  \/ KMLFileOpening
  \/ KMLInitialValuesAndStyles
  \/ FIRData
  \/ LatLonObtention
  \/ FlightCheck
  \/ KMLFileClosing
  \/ OutcomePrinting

Spec == Init /\ [][Next]_vars

\* ======================================================================
\* Properties
\* ======================================================================

ErrorMessages ==
  {"ERROR: Incorrect arguments", "ERROR: -lat argument not found",
   "ERROR: -lon argument not found", "ERROR: -time argument not found",
   "ERROR: -rad argument not found", "ERROR: Incorrect argument values",
   "ERROR: Incorrect time format", "ERROR: argument is not a file",
   "ERROR: Incorrect file extension", "ERROR: output name is not valid"}
Printed(msg) == \E i \in 1..Len(stdout) : stdout[i] = msg
ErrorReported == \E i \in 1..Len(stdout) : stdout[i] \in ErrorMessages
Ended == pc \in {"done", "exited", "crashed"}

\* the record the classification loop has just decided, and its distance to
\* the center in metres
LastFlightPos == <<flights_lat[index], flights_lon[index]>>
LastDistance == great_circle(<<sat_lat, sat_lon>>, LastFlightPos)
\* the time slice and the distance test, as the specification states them
TimeSlice == SelectSeq(flights_df, LAMBDA row : row.time = sat_time)
DistanceInUnitBelowRadius(row) ==
  LET m == great_circle(<<sat_lat, sat_lon>>, <<row.lat, row.lon>>) IN
  IF radius_in_mn THEN m < 1852 * sat_radius ELSE m < 1000 * sat_radius
AcceptedRecords == SelectSeq(TimeSlice, DistanceInUnitBelowRadius)

\* C1: every record of the time slice is accepted if and only if its
\* great-circle distance to the center, in the selected unit (nautical miles
\* by default, kilometres with -km), is strictly less than the radius; a
\* record at exactly the radius is rejected, and in nautical-mile mode the
\* fall-through kilometre test accepts no record whose distance in nautical
\* miles is at least the radius.
C1_AcceptedIffStrictlyInside ==
  index > 0 =>
    /\ flight_accepted = DistanceInUnitBelowRadius(TimeSlice[index])
    /\ (radius_in_mn /\ LastDistance >= 1852 * sat_radius) => ~flight_accepted
    /\ (~radius_in_mn /\ LastDistance >= 1000 * sat_radius) => ~flight_accepted

\* C1 witness: in nautical-mile mode a record exactly on the boundary of a
\* positive radius has been classified and rejected
C1_Witness ==
  /\ index > 0
  /\ radius_in_mn
  /\ sat_radius > 0
  /\ LastDistance = 1852 * sat_radius
  /\ ~flight_accepted

\* the three fields of a -time value are numbers and one is out of range
TimeFieldOutOfRange(t) ==
  /\ Len(split(t)) = 3
  /\ \A i \in 1..3 : IsInt(split(t)[i])
  /\ ~ /\ 0 <= int(split(t)[1]) /\ int(split(t)[1]) < 24
       /\ 0 <= int(split(t)[2]) /\ int(split(t)[2]) < 60
       /\ 0 <= int(split(t)[3]) /\ int(split(t)[3]) < 60

\* C2: a -time value HH:MM:SS with an hour, minute or second field out of
\* range is rejected with the time-format error, and the run terminates
\* before any input file is loaded (stated of the runs whose time check
\* 0.2.2 has read the value).
C2_TimeFieldsRangeChecked ==
  (sat_time = argv.time /\ pc # "time" /\ TimeFieldOutOfRange(sat_time)) =>
    /\ pc = "exited"
    /\ Printed("ERROR: Incorrect time format")
    /\ ~csv_loaded
    /\ ~geojson_loaded

\* C3: once an initial check of the overlay-building run has reported an
\* error, the run never loads the GeoJSON or CSV data and never opens the
\* output file.
C3_InitialCheckErrorsAreFatal ==
  (prog = "kml" /\ ErrorReported) =>
    /\ ~geojson_loaded
    /\ ~csv_loaded
    /\ kml_file.state = "unopened"

CompleteDocument ==
  /\ kml_file.state = "closed"
  /\ Len(kml_file.data) >= 2
  /\ kml_file.data[1].kind = "header"
  /\ kml_file.data[Len(kml_file.data)].kind = "footer"

\* C4: whenever an overlay-building run that opened the output file ends,
\* normally or on an error, the file is a complete closed document or is
\* empty; it is never left with a header or entries and no footer.
C4_NoPartialDocument ==
  (prog = "kml" /\ Ended /\ kml_file.state # "unopened") =>
    (CompleteDocument \/ kml_file.data = <<>>)

\* C5: a completed overlay-building run has written, in this order and each
\* once: the header with the title, the region style, the marker style, one
\* region entry per loaded region in source order, one marker entry per
\* accepted record of the time slice in slice order (none for rejected
\* records or other time instants), then the footer, and has closed the file.
C5_DocumentPartsInOrder ==
  (prog = "kml" /\ pc = "done") =>
    LET d == kml_file.data
        nR == Len(polygons)
        nM == Len(AcceptedRecords)
    IN /\ kml_file.state = "closed"
       /\ Len(d) = 3 + nR + nM + 1
       /\ d[1].kind = "header" /\ d[1].name = argv.out
       /\ d[2].kind = "style" /\ d[2].id = "FIR"
       /\ d[3].kind = "style" /\ d[3].id = "Flight"
       /\ \A i \in 1..nR :
            /\ d[3 + i].kind = "region"
            /\ d[3 + i].name = getItem(names[i], "FIRname")
            /\ d[3 + i].data = names[i]
            /\ Len(d[3 + i].coordinates) = Len(polygons[i])
       /\ \A j \in 1..nM :
            /\ d[3 + nR + j].kind = "marker"
            /\ d[3 + nR + j].coordinates[1] = AcceptedRecords[j].lon
            /\ d[3 + nR + j].coordinates[2] = AcceptedRecords[j].lat
       /\ d[Len(d)].kind = "footer"

\* C5 witness: a completed run with two different regions, a CSV file that
\* holds an accepted record, and a record that produced no marker
C5_Witness ==
  /\ prog = "kml" /\ pc = "done"
  /\ Len(polygons) = 2 /\ names[1] # names[2]
  /\ Len(AcceptedRecords) >= 1
  /\ Len(flights_df) > Len(AcceptedRecords)
  /\ kml_file.data[Len(kml_file.data) - 1].kind = "marker"

\* C6: the marker written for an accepted record carries the triple
\* (longitude, latitude, 0) of that same record: longitude (third CSV
\* column) first, latitude (second CSV column) second, then 0.
C6_MarkerLonLatOfSameRecord ==
  (prog = "kml" /\ pc = "flights" /\ index > 0 /\ flight_accepted) =>
    LET marker == kml_file.data[Len(kml_file.data)] IN
    /\ marker.kind = "marker"
    /\ marker.coordinates = <<TimeSlice[index].lon, TimeSlice[index].lat, 0>>

\* C6 witness: a marker has been written for an accepted record whose
\* latitude and longitude differ
C6_Witness ==
  /\ prog = "kml" /\ pc = "flights" /\ index > 0 /\ flight_accepted
  /\ TimeSlice[index].lon # TimeSlice[index].lat
  /\ kml_file.data[Len(kml_file.data)].kind = "marker"

\* C7: every marker entry of the document is well-formed: no character data
\* follows the closing tag of the point coordinate value.
C7_MarkersWellFormed ==
  \A i \in 1..Len(kml_file.data) :
    kml_file.data[i].kind = "marker" =>
      /\ kml_file.data[i].styleUrl = "#Flight"
      /\ kml_file.data[i].afterCoordinates = ""

\* C8: the boundary emitted for every loaded region is a closed ring of
\* (lon, lat, 0) triples: vertices in source order, longitude before
\* latitude, altitude 0, and the last triple equal to the first.
C8_RegionRingClosed ==
  \A i \in 1..Len(kml_file.data) :
    kml_file.data[i].kind = "region" =>
      LET c == kml_file.data[i].coordinates
          ring == polygons[i - 3]
      IN /\ Len(c) = Len(ring)
         /\ \A k \in 1..Len(c) : c[k] = <<ring[k][1], ring[k][2], 0>>
         /\ c[Len(c)] = c[1]

\* C9: every run that reaches the classification loop does so with a
\* coverage radius strictly greater than 0 and with the unit the command
\* line selected; a zero or negative -rad never passes the initial checks.
C9_RadiusPositiveInLoop ==
  pc = "flights" =>
    /\ sat_radius > 0
    /\ radius_in_mn = ~argv.km

\* C10: every validation failure prints an error plus the usage text and
\* terminates the run with a non-zero exit status.
C10_ValidationFailureExitsNonZero ==
  (pc = "exited" /\ ErrorReported) =>
    /\ Printed(help_manual)
    /\ exit_status # 0
====
